---- MODULE Spec2Model ----
(***************************************************************************)
(* Hex-grid coordinate algebra and move-notation resolver of the engine    *)
(* (engine/src/position.rs): Position::to, Position::direction,            *)
(* Position::common_adjacent_positions and Position::from_string.          *)
(*                                                                         *)
(* Coordinates are modelled as mathematical integers in a window around    *)
(* the origin; the i32 extremes, where x + 1 or y + 1 is not               *)
(* representable, lie outside every window checked here.                   *)
(***************************************************************************)
EXTENDS Integers, Sequences, FiniteSets, TLC

VARIABLES
    self,    \* the receiver &self of to / direction / common_adjacent_positions
    fn,      \* the method called last, "new" before any call
    arg,     \* its argument: a Direction (dir) or the other Position (pos)
    ret,     \* the value it returned
    s,       \* from_string: the input string
    board,   \* from_string: the placement registry, piece -> Position
    result   \* from_string: the Result<Position, GameError> returned

vars == <<self, fn, arg, ret, s, board, result>>

(***************************************************************************)
(* Bounds of the model.                                                    *)
(***************************************************************************)
\* receivers of the geometry calls have |x|, |y| <= MaxCoord
MaxCoord == 3
\* input strings of from_string have at most MaxLen characters
MaxLen == 5

(***************************************************************************)
(* Position and Direction values.                                          *)
(***************************************************************************)
new(x, y) == [x |-> x, y |-> y]

new_i32(x, y) == [x |-> x, y |-> y]

Direction == {"NW", "NE", "E", "SE", "SW", "W"}

\* the fixed six-cycle NW -> NE -> E -> SE -> SW -> W -> NW
Ring == <<"NW", "NE", "E", "SE", "SW", "W">>

RingIndex(d) == CHOOSE i \in 1..6 : Ring[i] = d

\* the two directions immediately preceding and following d in the ring
adjacent_directions(d) ==
    LET i == RingIndex(d)
    IN  <<Ring[((i + 4) % 6) + 1], Ring[(i % 6) + 1]>>

\* self.y.rem_euclid(2) == 0  (TLA+ % is the euclidean remainder)
even_row(p) == p.y % 2 = 0

\* direction() aborts the process instead of returning
PANIC == "panic"

direction_swapped_even(from, to) ==
    LET dx == to.x - from.x
        dy == to.y - from.y
    IN  IF even_row(from)
        THEN CASE dx = -1 /\ dy = -1 -> "NE"
               [] dx = 0  /\ dy = -1 -> "NW"
               [] dx = 1  /\ dy = 0  -> "E"
               [] dx = 0  /\ dy = 1  -> "SE"
               [] dx = -1 /\ dy = 1  -> "SW"
               [] dx = -1 /\ dy = 0  -> "W"
               [] OTHER -> PANIC
        ELSE CASE dx = 0  /\ dy = -1 -> "NW"
               [] dx = 1  /\ dy = -1 -> "NE"
               [] dx = 1  /\ dy = 0  -> "E"
               [] dx = 1  /\ dy = 1  -> "SE"
               [] dx = 0  /\ dy = 1  -> "SW"
               [] dx = -1 /\ dy = 0  -> "W"
               [] OTHER -> PANIC

\* the odd-row table consulted whatever the parity of the row
direction_no_parity(from, to) ==
    LET dx == to.x - from.x
        dy == to.y - from.y
    IN  CASE dx = 0  /\ dy = -1 -> "NW"
          [] dx = 1  /\ dy = -1 -> "NE"
          [] dx = 1  /\ dy = 0  -> "E"
          [] dx = 1  /\ dy = 1  -> "SE"
          [] dx = 0  /\ dy = 1  -> "SW"
          [] dx = -1 /\ dy = 0  -> "W"
          [] OTHER -> PANIC

direction(from, to) ==
    LET dx == to.x - from.x
        dy == to.y - from.y
    IN  IF even_row(from)
        THEN CASE dx = -1 /\ dy = -1 -> "NW"
               [] dx = 0  /\ dy = -1 -> "NE"
               [] dx = 1  /\ dy = 0  -> "E"
               [] dx = 0  /\ dy = 1  -> "SE"
               [] dx = -1 /\ dy = 1  -> "SW"
               [] dx = -1 /\ dy = 0  -> "W"
               [] OTHER -> PANIC
        ELSE CASE dx = 0  /\ dy = -1 -> "NW"
               [] dx = 1  /\ dy = -1 -> "NE"
               [] dx = 1  /\ dy = 0  -> "E"
               [] dx = 1  /\ dy = 1  -> "SE"
               [] dx = 0  /\ dy = 1  -> "SW"
               [] dx = -1 /\ dy = 0  -> "W"
               [] OTHER -> PANIC

\* the even-row table used on every row
to_no_parity(p, d) ==
    CASE d = "NW" -> new_i32(p.x - 1, p.y - 1)
      [] d = "NE" -> new_i32(p.x, p.y - 1)
      [] d = "E"  -> new_i32(p.x + 1, p.y)
      [] d = "SE" -> new_i32(p.x, p.y + 1)
      [] d = "SW" -> new_i32(p.x - 1, p.y + 1)
      [] d = "W"  -> new_i32(p.x - 1, p.y)

\* the parity test written as y % 2 == 1 with the truncating remainder,
\* which is never true on a negative row
to_trunc_rem(p, d) ==
    IF p.y % 2 = 0 \/ p.y < 0
    THEN CASE d = "NW" -> new_i32(p.x - 1, p.y - 1)
           [] d = "NE" -> new_i32(p.x, p.y - 1)
           [] d = "E"  -> new_i32(p.x + 1, p.y)
           [] d = "SE" -> new_i32(p.x, p.y + 1)
           [] d = "SW" -> new_i32(p.x - 1, p.y + 1)
           [] d = "W"  -> new_i32(p.x - 1, p.y)
    ELSE CASE d = "NW" -> new_i32(p.x, p.y - 1)
           [] d = "NE" -> new_i32(p.x + 1, p.y - 1)
           [] d = "E"  -> new_i32(p.x + 1, p.y)
           [] d = "SE" -> new_i32(p.x + 1, p.y + 1)
           [] d = "SW" -> new_i32(p.x, p.y + 1)
           [] d = "W"  -> new_i32(p.x - 1, p.y)

to(p, d) ==
    IF even_row(p)
    THEN CASE d = "NW" -> new_i32(p.x - 1, p.y - 1)
           [] d = "NE" -> new_i32(p.x, p.y - 1)
           [] d = "E"  -> new_i32(p.x + 1, p.y)
           [] d = "SE" -> new_i32(p.x, p.y + 1)
           [] d = "SW" -> new_i32(p.x - 1, p.y + 1)
           [] d = "W"  -> new_i32(p.x - 1, p.y)
    ELSE CASE d = "NW" -> new_i32(p.x, p.y - 1)
           [] d = "NE" -> new_i32(p.x + 1, p.y - 1)
           [] d = "E"  -> new_i32(p.x + 1, p.y)
           [] d = "SE" -> new_i32(p.x + 1, p.y + 1)
           [] d = "SW" -> new_i32(p.x, p.y + 1)
           [] d = "W"  -> new_i32(p.x - 1, p.y)

\* result of common_adjacent_positions: the pair, or the panic of direction()
Pair(a, b) == [panic |-> FALSE, first |-> a, second |-> b]

PanicPair == [panic |-> TRUE, first |-> new(0, 0), second |-> new(0, 0)]

\* the second gate taken from the far cell instead of the near one
common_adjacent_positions_far(from, t) ==
    LET d == direction(from, t)
    IN  IF d = PANIC
        THEN PanicPair
        ELSE LET dirs == adjacent_directions(d)
             IN  Pair(to(from, dirs[1]), to(t, dirs[2]))

common_adjacent_positions(from, t) ==
    LET d == direction(from, t)
    IN  IF d = PANIC
        THEN PanicPair
        ELSE LET dirs == adjacent_directions(d)
             IN  Pair(to(from, dirs[1]), to(from, dirs[2]))

(***************************************************************************)
(* Notation resolver.  A string is a sequence of one-character strings.    *)
(***************************************************************************)
\* the character classes of the pattern ([-/\\]?)([wb][ABGMLPSQ]\d?)([-/\\]?)
SymbolClassWide == {"-", "/", "\\", "1", "."}

SymbolClass == {"-", "/", "\\"}

ColorClass == {"w", "b"}

BugClass == {"A", "B", "G", "M", "L", "P", "S", "Q"}

DigitClass == {"0", "1", "2", "3", "4", "5", "6", "7", "8", "9"}

starts_with(str, c) == Len(str) > 0 /\ str[1] = c

\* [wb][ABGMLPSQ] matches at index j
piece_at(str, j) ==
    /\ j >= 1
    /\ j + 1 <= Len(str)
    /\ str[j] \in ColorClass
    /\ str[j + 1] \in BugClass

\* the whole pattern matches starting at index i
match_at(str, i) ==
    \/ str[i] \in SymbolClass /\ piece_at(str, i + 1)
    \/ piece_at(str, i)

NoCaptures == [matched |-> FALSE, c1 |-> <<>>, c2 |-> <<>>, c3 |-> <<>>]

\* RE.captures(s): the leftmost match of the unanchored pattern, every
\* optional item taken greedily
captures(str) ==
    IF \E i \in 1..Len(str) : match_at(str, i)
    THEN LET i == CHOOSE i \in 1..Len(str) :
                    match_at(str, i) /\ \A k \in 1..(i - 1) : ~match_at(str, k)
             hasPrefix == str[i] \in SymbolClass /\ piece_at(str, i + 1)
             j == IF hasPrefix THEN i + 1 ELSE i
             hasDigit == j + 2 <= Len(str) /\ str[j + 2] \in DigitClass
             k == IF hasDigit THEN j + 3 ELSE j + 2
             hasSuffix == k <= Len(str) /\ str[k] \in SymbolClass
         IN  [matched |-> TRUE,
              c1 |-> IF hasPrefix THEN <<str[i]>> ELSE <<>>,
              c2 |-> SubSeq(str, j, k - 1),
              c3 |-> IF hasSuffix THEN <<str[k]>> ELSE <<>>]
    ELSE NoCaptures

\* Result<Position, GameError>; lookups counts the reads of the registry
Ok(p) ==
    [kind |-> "Ok", position |-> p, found |-> <<>>, typ |-> "",
     direction |-> <<>>, lookups |-> 0]

ParsingError(found, typ) ==
    [kind |-> "ParsingError", position |-> new(0, 0), found |-> found,
     typ |-> typ, direction |-> <<>>, lookups |-> 0]

InvalidDirection(sym) ==
    [kind |-> "InvalidDirection", position |-> new(0, 0), found |-> <<>>,
     typ |-> "", direction |-> sym, lookups |-> 0]

NoResult ==
    [kind |-> "none", position |-> new(0, 0), found |-> <<>>, typ |-> "",
     direction |-> <<>>, lookups |-> 0]

\* cap[2].parse::<Piece>(): colour, type letter and optional numeral
NoPiece == [color |-> "", bug |-> "", order |-> ""]

parse_piece(code) ==
    IF Len(code) >= 2 /\ code[1] \in {"w", "b"}
          /\ code[2] \in {"A", "B", "G", "M", "L", "P", "S", "Q"}
    THEN [ok |-> TRUE,
          piece |-> [color |-> code[1], bug |-> code[2],
                     order |-> IF Len(code) >= 3 THEN code[3] ELSE ""],
          err |-> NoResult]
    ELSE [ok |-> FALSE, piece |-> NoPiece, err |-> ParsingError(code, "piece")]

\* board.position(&piece): the position of a placed piece, or None
position(b, piece) ==
    IF piece \in DOMAIN b
    THEN [some |-> TRUE, pos |-> b[piece]]
    ELSE [some |-> FALSE, pos |-> new(0, 0)]

\* the prefix symbol: \ -> NW, - -> W, / -> SW
apply_prefix(p, c1) ==
    IF c1 # <<>>
    THEN CASE c1 = <<"\\">> -> Ok(to(p, "NW"))
           [] c1 = <<"-">> -> Ok(to(p, "W"))
           [] c1 = <<"/">> -> Ok(to(p, "SW"))
           [] OTHER -> InvalidDirection(c1)
    ELSE Ok(p)

\* the slanted symbols read as on the prefix side
apply_suffix_swapped(p, c3) ==
    IF c3 # <<>>
    THEN CASE c3 = <<"/">> -> Ok(to(p, "SE"))
           [] c3 = <<"-">> -> Ok(to(p, "E"))
           [] c3 = <<"\\">> -> Ok(to(p, "NE"))
           [] OTHER -> InvalidDirection(c3)
    ELSE Ok(p)

\* the suffix symbol: / -> NE, - -> E, \ -> SE
apply_suffix(p, c3) ==
    IF c3 # <<>>
    THEN CASE c3 = <<"/">> -> Ok(to(p, "NE"))
           [] c3 = <<"-">> -> Ok(to(p, "E"))
           [] c3 = <<"\\">> -> Ok(to(p, "SE"))
           [] OTHER -> InvalidDirection(c3)
    ELSE Ok(p)

Looked(r) == [r EXCEPT !.lookups = 1]

\* an unplaced piece resolved to the default coordinate
resolve_or_default(str, b) ==
    LET cap == captures(str)
    IN  IF cap.matched
        THEN LET parsed == parse_piece(cap.c2)
             IN  IF ~parsed.ok
                 THEN parsed.err
                 ELSE LET anchor == position(b, parsed.piece)
                          moved == apply_prefix(anchor.pos, cap.c1)
                      IN  IF moved.kind # "Ok"
                          THEN Looked(moved)
                          ELSE Looked(apply_suffix(moved.position, cap.c3))
        ELSE ParsingError(str, "position")

\* from_string past the origin shortcut
resolve(str, b) ==
    LET cap == captures(str)
    IN  IF cap.matched
        THEN LET parsed == parse_piece(cap.c2)
             IN  IF ~parsed.ok
                 THEN parsed.err
                 ELSE LET anchor == position(b, parsed.piece)
                      IN  IF anchor.some
                          THEN LET moved == apply_prefix(anchor.pos, cap.c1)
                               IN  IF moved.kind # "Ok"
                                   THEN Looked(moved)
                                   ELSE Looked(apply_suffix(moved.position, cap.c3))
                          ELSE Looked(ParsingError(str, "position"))
        ELSE ParsingError(str, "position")

from_string_no_shortcut(str, b) == resolve(str, b)

from_string(str, b) ==
    IF starts_with(str, ".")
    THEN Ok(new(0, 0))
    ELSE resolve(str, b)

(***************************************************************************)
(* Inputs of the calls.                                                    *)
(***************************************************************************)
\* how far from the receiver the other cell of direction() may lie
Reach == 2

Coord == (0 - MaxCoord)..MaxCoord

Receivers == {new(x, y) : x \in Coord, y \in Coord}

Near(p) == {new(p.x + dx, p.y + dy) : dx \in (0 - Reach)..Reach, dy \in (0 - Reach)..Reach}

\* characters the input strings are drawn from
Alphabet == {"\\", "-", "/", "w", "A", "1", ".", "x"}

Strings == UNION {[1..n -> Alphabet] : n \in 0..MaxLen}

\* the pieces a registry may hold, and where
wA == [color |-> "w", bug |-> "A", order |-> ""]

wA1 == [color |-> "w", bug |-> "A", order |-> "1"]

Placeable == {wA, wA1}

Anchors == {new(0, 0), new(2, 3), new(-2, -3)}

Boards == UNION {[placed -> Anchors] : placed \in SUBSET Placeable}

NoArg == [dir |-> "none", pos |-> new(0, 0)]

NoRet == [dir |-> "none", pos |-> new(0, 0), pair |-> PanicPair]

(***************************************************************************)
(* Geometry calls on a receiver.                                           *)
(***************************************************************************)
Init ==
    /\ self \in Receivers
    /\ fn = "new"
    /\ arg = NoArg
    /\ ret = NoRet
    /\ s = <<>>
    /\ board = <<>>
    /\ result = NoResult

To(d) ==
    /\ fn' = "to"
    /\ arg' = [dir |-> d, pos |-> new(0, 0)]
    /\ ret' = [NoRet EXCEPT !.pos = to(self, d)]
    /\ UNCHANGED <<self, s, board, result>>

DirectionOf(t) ==
    /\ fn' = "direction"
    /\ arg' = [dir |-> "none", pos |-> t]
    /\ ret' = [NoRet EXCEPT !.dir = direction(self, t)]
    /\ UNCHANGED <<self, s, board, result>>

CommonAdjacentPositions(t) ==
    /\ fn' = "common_adjacent_positions"
    /\ arg' = [dir |-> "none", pos |-> t]
    /\ ret' = [NoRet EXCEPT !.pair = common_adjacent_positions(self, t)]
    /\ UNCHANGED <<self, s, board, result>>

Next ==
    \/ \E d \in Direction : To(d)
    \/ \E t \in Near(self) : DirectionOf(t)
    \/ \E t \in Near(self) : CommonAdjacentPositions(t)

Spec == Init /\ [][Next]_vars

(***************************************************************************)
(* Resolution of a notation string against a placement registry.           *)
(***************************************************************************)
InitFromString ==
    /\ s \in Strings
    /\ board \in Boards
    /\ fn = "new"
    /\ result = NoResult
    /\ self = new(0, 0)
    /\ arg = NoArg
    /\ ret = NoRet

FromString ==
    /\ fn = "new"
    /\ fn' = "from_string"
    /\ result' = from_string(s, board)
    /\ UNCHANGED <<self, arg, ret, s, board>>

NextFromString == FromString

SpecFromString == InitFromString /\ [][NextFromString]_vars

(***************************************************************************)
(* Hex adjacency of the odd-r layout, stated independently of the offset   *)
(* tables: the cell (x, y) has axial coordinates (x - floor(y / 2), y),    *)
(* and two cells are neighbours iff their hex distance is one.             *)
(***************************************************************************)
AxialQ(p) == p.x - ((p.y - (p.y % 2)) \div 2)

Abs(n) == IF n < 0 THEN 0 - n ELSE n

Max3(a, b, c) ==
    IF a >= b /\ a >= c THEN a ELSE IF b >= c THEN b ELSE c

HexDistance(a, b) ==
    LET dq == AxialQ(b) - AxialQ(a)
        dr == b.y - a.y
    IN  Max3(Abs(dq), Abs(dr), Abs(dq + dr))

Adjacent(a, b) == HexDistance(a, b) = 1

Opposite(d) ==
    CASE d = "NW" -> "SE"
      [] d = "NE" -> "SW"
      [] d = "E"  -> "W"
      [] d = "SE" -> "NW"
      [] d = "SW" -> "NE"
      [] d = "W"  -> "E"

(***************************************************************************)
(* The notation grammar  move := '.' | prefix? piece_code suffix?          *)
(***************************************************************************)
GrammarSymbols == {"\\", "-", "/"}

GrammarColors == {"w", "b"}

GrammarTypes == {"A", "B", "G", "M", "L", "P", "S", "Q"}

GrammarDigits == {"0", "1", "2", "3", "4", "5", "6", "7", "8", "9"}

TokenPrefix(str) ==
    IF Len(str) > 0 /\ str[1] \in GrammarSymbols THEN <<str[1]>> ELSE <<>>

CodeStart(str) == Len(TokenPrefix(str)) + 1

HasCode(str) ==
    /\ CodeStart(str) + 1 <= Len(str)
    /\ str[CodeStart(str)] \in GrammarColors
    /\ str[CodeStart(str) + 1] \in GrammarTypes

CodeLen(str) ==
    IF CodeStart(str) + 2 <= Len(str) /\ str[CodeStart(str) + 2] \in GrammarDigits
    THEN 3
    ELSE 2

TokenCode(str) == SubSeq(str, CodeStart(str), CodeStart(str) + CodeLen(str) - 1)

TokenSuffix(str) == SubSeq(str, CodeStart(str) + CodeLen(str), Len(str))

\* prefix? piece_code suffix?
ValidToken(str) ==
    /\ HasCode(str)
    /\ \/ TokenSuffix(str) = <<>>
       \/ Len(TokenSuffix(str)) = 1 /\ TokenSuffix(str)[1] \in GrammarSymbols

Derivable(str) == str = <<".">> \/ ValidToken(str)

TokenPiece(str) ==
    [color |-> TokenCode(str)[1], bug |-> TokenCode(str)[2],
     order |-> IF Len(TokenCode(str)) = 3 THEN TokenCode(str)[3] ELSE ""]

PrefixDirection(c) ==
    CASE c = "\\" -> "NW"
      [] c = "-" -> "W"
      [] c = "/" -> "SW"

SuffixDirection(c) ==
    CASE c = "/" -> "NE"
      [] c = "-" -> "E"
      [] c = "\\" -> "SE"

\* the anchor, stepped by the prefix and then, from there, by the suffix
Expected(str, b) ==
    LET anchor == b[TokenPiece(str)]
        afterPrefix == IF TokenPrefix(str) = <<>>
                       THEN anchor
                       ELSE to(anchor, PrefixDirection(TokenPrefix(str)[1]))
    IN  IF TokenSuffix(str) = <<>>
        THEN afterPrefix
        ELSE to(afterPrefix, SuffixDirection(TokenSuffix(str)[1]))

IsParsingErrorOf(r, str) ==
    r.kind = "ParsingError" /\ r.found = str /\ r.typ = "position"

(***************************************************************************)
(* Claims.                                                                 *)
(***************************************************************************)
\* C1: for every position p, on both row parities and with negative
\* coordinates, and every direction d, direction(p, to(p, d)) returns d and
\* does not panic.
C1_RoundTrip ==
    fn = "to" => direction(self, ret.pos) = arg.dir

C1_Witness ==
    /\ fn = "to"
    /\ self = new(-2, -3)
    /\ arg.dir = "NE"
    /\ ret.pos = new(-1, -4)

\* C2: whenever b is one of the six neighbours of a, a.to(a.direction(b)) is
\* b; in particular, with q = p.to(d), q.direction(p) does not panic and
\* q.to(q.direction(p)) is p.
C2_DoubleRoundTrip ==
    /\ fn = "direction" /\ Adjacent(self, arg.pos)
          => ret.dir # PANIC /\ to(self, ret.dir) = arg.pos
    /\ fn = "to"
          => /\ direction(ret.pos, self) # PANIC
             /\ to(ret.pos, direction(ret.pos, self)) = self

C2_Witness ==
    /\ fn = "direction"
    /\ self = new(1, -1)
    /\ arg.pos = new(2, -2)
    /\ ret.dir = "NE"

\* C3: for adjacent cells from and to, common_adjacent_positions(from, to)
\* returns two distinct cells, each a neighbour of from and of to, and they
\* are the only two cells that neighbour both.
C3_CommonAdjacent ==
    fn = "common_adjacent_positions" /\ Adjacent(self, arg.pos)
        => /\ ~ret.pair.panic
           /\ ret.pair.first # ret.pair.second
           /\ Adjacent(ret.pair.first, self) /\ Adjacent(ret.pair.first, arg.pos)
           /\ Adjacent(ret.pair.second, self) /\ Adjacent(ret.pair.second, arg.pos)
           /\ {c \in Near(self) : Adjacent(c, self) /\ Adjacent(c, arg.pos)}
                 = {ret.pair.first, ret.pair.second}

C3_Witness ==
    /\ fn = "common_adjacent_positions"
    /\ self = new(0, -1)
    /\ arg.pos = new(1, -2)
    /\ ret.pair = Pair(new(0, -2), new(1, -1))

\* C4: direction(from, to) panics, and returns no direction, whenever to is
\* not one of the six neighbours of from under from's row parity: to = from
\* and the deltas valid only on the other parity included.
C4_PanicsOffNeighbour ==
    fn = "direction" /\ ~Adjacent(self, arg.pos) => ret.dir = PANIC

C4_Witness ==
    /\ fn = "direction"
    /\ self = new(0, 0)
    /\ arg.pos = new(1, 1)
    /\ ret.dir = PANIC

\* C5: every input string that the grammar  '.' | prefix? piece_code suffix?
\* does not derive is answered with the parsing error that carries the input
\* and the kind "position", for every registry.
C5_NonGrammarRejected ==
    fn = "from_string" /\ ~Derivable(s) => IsParsingErrorOf(result, s)

\* C6: a grammatically valid token whose piece is absent from the registry is
\* answered with the parsing error that carries the input and the kind
\* "position", never with a position, with or without prefix and suffix.
C6_AbsentAnchor ==
    fn = "from_string" /\ ValidToken(s) /\ TokenPiece(s) \notin DOMAIN board
        => IsParsingErrorOf(result, s)

C6_Witness ==
    /\ fn = "from_string"
    /\ s = <<"-", "w", "A", "1", "/">>
    /\ DOMAIN board = {wA}
    /\ IsParsingErrorOf(result, s)

\* C7: a grammatically valid token whose piece is placed at A resolves to A
\* without symbols, to A.to(P) with a prefix (\ NW, - W, / SW), to A.to(S)
\* with a suffix (/ NE, - E, \ SE), and to A.to(P).to(S) with both, the
\* suffix step taken from the cell the prefix step reached.
C7_Resolution ==
    fn = "from_string" /\ ValidToken(s) /\ TokenPiece(s) \in DOMAIN board
        => result.kind = "Ok" /\ result.position = Expected(s, board)

C7_Witness ==
    /\ fn = "from_string"
    /\ s = <<"\\", "w", "A", "1", "/">>
    /\ wA1 \in DOMAIN board
    /\ board[wA1] = new(-2, -3)
    /\ result.kind = "Ok"
    /\ result.position = new(-2, -5)

\* C8: the token "." resolves to the position (0, 0) for every registry,
\* empty or not, and the registry is not read.
C8_OriginShortcut ==
    fn = "from_string" /\ s = <<".">>
        => result.kind = "Ok" /\ result.position = new(0, 0) /\ result.lookups = 0

C8_Witness ==
    /\ fn = "from_string"
    /\ s = <<".">>
    /\ DOMAIN board = {wA, wA1}
    /\ result.kind = "Ok"

\* C9: from_string never answers with the invalid-direction error: the
\* prefix and suffix the tokenizer captures are empty or one of \ - /.
C9_NoInvalidDirection ==
    fn = "from_string" => result.kind # "InvalidDirection"

C9_Witness ==
    /\ fn = "from_string"
    /\ s = <<"1", "w", "A", "1", ".">>
    /\ wA1 \in DOMAIN board
    /\ result.kind = "Ok"

\* C10: the direction back from a neighbour is the opposite one on the ring:
\* p.to(d).direction(p) is three steps from d (NW <-> SE, NE <-> SW, E <-> W)
\* on both row parities, and p.to(d).to(opposite(d)) is p.
C10_Opposite ==
    fn = "to"
        => /\ direction(ret.pos, self) = Opposite(arg.dir)
           /\ to(ret.pos, Opposite(arg.dir)) = self

C10_Witness ==
    /\ fn = "to"
    /\ self = new(3, 1)
    /\ arg.dir = "SW"
    /\ ret.pos = new(3, 2)
    /\ direction(ret.pos, self) = "NE"

====
